---- MODULE Spec2Model ----
(***************************************************************************)
(* Model of upower-dbus (src/src/lib.rs): the UPower client, the requests  *)
(* it sends over the system bus, and the UPower service that answers.      *)
(* A call blocks on the bus, so every operation is split at its blocking   *)
(* points: the invocation sends the first request, and the bus's answer    *)
(* (a reply, an error reply, or the timeout) runs the rest of the call.    *)
(***************************************************************************)
EXTENDS Integers, Sequences, FiniteSets, TLC

(* ---------------- bounds ---------------- *)

\* Largest finite timeout (in clock ticks) a client is constructed with.
MaxTimeout == 1
\* Number of changes the service's state undergoes in one behaviour.
MaxChanges == 1

(* ---------------- names of the UPower contract ---------------- *)

UPowerName == "org.freedesktop.UPower"
RootPath == "/org/freedesktop/UPower"
UPowerIface == "org.freedesktop.UPower"
DeviceIface == "org.freedesktop.UPower.Device"
PropertiesIface == "org.freedesktop.DBus.Properties"
DisplayDevicePath == "/org/freedesktop/UPower/devices/DisplayDevice"
BatteryPath == "/org/freedesktop/UPower/devices/battery_BAT0"

\* Object paths of device objects the service may export.
DevicePaths == {DisplayDevicePath, BatteryPath}
\* Paths a caller hands to the path-qualified getters.
CallerPaths == DevicePaths \cup {RootPath}

\* f64 property values, in tenths (735 is 73.5).
Doubles == {0, 735}

(* ---------------- timeouts ---------------- *)

\* i32::MAX, which libdbus reads as "no timeout".
TimeoutInfinite == 2147483647
\* -1, which libdbus reads as "use the default timeout".
TimeoutUseDefault == 0 - 1
\* The default timeout of the bus library, in clock ticks.
DefaultTimeout == MaxTimeout + 1
\* The timeout: i32 values a client is constructed with.
Timeouts == (0..MaxTimeout) \cup {TimeoutUseDefault, TimeoutInfinite}
\* Clock ticks one request can be seen waiting (caps the infinite timeout).
MaxWait == DefaultTimeout + 1

(* ---------------- values on the wire ---------------- *)

\* One typed D-Bus argument: t is the D-Bus type code.
ArgBool(x) == [t |-> "b", b |-> x, d |-> 0, s |-> ""]
ArgDouble(x) == [t |-> "d", b |-> FALSE, d |-> x, s |-> ""]
ArgPath(x) == [t |-> "o", b |-> FALSE, d |-> 0, s |-> x]
ArgString(x) == [t |-> "s", b |-> FALSE, d |-> 0, s |-> x]

\* What the bus hands back for a request: a method return or an error.
MethodReturn(args) == [kind |-> "return", name |-> "", args |-> args]
ErrorReply(name) == [kind |-> "error", name |-> name, args |-> <<>>]

ErrNoReply == "org.freedesktop.DBus.Error.NoReply"
ErrServiceUnknown == "org.freedesktop.DBus.Error.ServiceUnknown"
ErrUnknownObject == "org.freedesktop.DBus.Error.UnknownObject"
ErrInvalidArgs == "org.freedesktop.DBus.Error.InvalidArgs"
ErrTypeMismatch == "org.freedesktop.DBus.Error.Failed"
ErrNoServer == "org.freedesktop.DBus.Error.NoServer"

(* ---------------- results returned to the caller ---------------- *)

Res(ok, kind, why, a) == [ok |-> ok, kind |-> kind, why |-> why, val |-> a]
NoVal == ArgString("")
NoResult == Res(FALSE, "none", "", NoVal)
OkUPower == Res(TRUE, "UPower", "", NoVal)
OkValue(a) == Res(TRUE, "value", "", a)
OkSome(a) == Res(TRUE, "Some", "", a)
OkNone == Res(TRUE, "None", "", NoVal)
\* UPowerError::MethodCall { why }
MethodCall(why) == Res(FALSE, "MethodCall", why, NoVal)
\* UPowerError::Dbus { why }
Dbus(why) == Res(FALSE, "Dbus", why, NoVal)
\* UPowerError::NoDisplayDevice
NoDisplayDevice == Res(FALSE, "NoDisplayDevice", "", NoVal)

\* impl From<dbus::Error> for UPowerError
From_dbus_Error(why) == Dbus(why)


(* ---------------- state ---------------- *)

VARIABLES
  client,      \* the UPower value: NoClient, or [timeout |-> i32] (it owns the connection)
  op,          \* the operation in progress, or the last one that returned
  pc,          \* "idle", or the request the call is blocked on: "resolving" | "reading"
  sent,        \* requests the current operation has put on the bus, in order
  answers,     \* what the bus handed back to the current operation, in order
  waited,      \* clock ticks the request in flight has been waiting
  result,      \* what the last operation returned to its caller
  prev,        \* what the same operation returned when it was the call just before
  svcDisplay,  \* body of the service's GetDisplayDevice reply
  objects,     \* the device objects of the service and their properties
  onBattery,   \* the OnBattery property of the root object
  changed,     \* the service's state changed since the last request was sent
  changes      \* number of changes of the service's state so far

vars == <<client, op, pc, sent, answers, waited, result, prev,
          svcDisplay, objects, onBattery, changed, changes>>
clientVars == <<client, op, pc, sent, answers, waited, result, prev>>
serviceVars == <<svcDisplay, objects, onBattery>>

NoClient == [connected |-> FALSE, timeout |-> 0]
\* struct UPower { connection, timeout }
UPower(timeout) == [connected |-> TRUE, timeout |-> timeout]

\* A call and its arguments: prop and type are the macro's $prop and $type,
\* path the caller's path, timeout the argument of new.
Op(name, arm, prop, type, path) ==
  [name |-> name, arm |-> arm, prop |-> prop, type |-> type, path |-> path,
   timeout |-> 0]
NoOp == Op("none", "none", "", "", "")

Last(q) == q[Len(q)]

(* ---------------- requests ---------------- *)

\* Message::new_method_call(dest, path, iface, member), sent with a timeout.
\* The arguments of a Properties.Get call are the property's interface and name.
Request(path, iface, member, propIface, prop, timeout) ==
  [dest |-> UPowerName, path |-> path, iface |-> iface, member |-> member,
   propIface |-> propIface, prop |-> prop, timeout |-> timeout]

\* Variant: the method call is sent with the bus library's default timeout.
GetDisplayDeviceCall_default(self) ==
  Request(RootPath, UPowerIface, "GetDisplayDevice", "", "", TimeoutUseDefault)

\* The method call get_display_device sends, with self.timeout.
GetDisplayDeviceCall(self) ==
  Request(RootPath, UPowerIface, "GetDisplayDevice", "", "", self.timeout)

\* Variant: property reads are sent with the bus library's default timeout.
connection_path_default(self, path) ==
  [dest |-> UPowerName, path |-> path, timeout |-> TimeoutUseDefault]

\* self.connection.with_path("org.freedesktop.UPower", path, self.timeout):
\* the destination, path and timeout of every property read made through it.
connection_path(self, path) ==
  [dest |-> UPowerName, path |-> path, timeout |-> self.timeout]

\* ConnPath::get::<T>(iface, prop): the Properties.Get call it sends.
PropGet(cp, iface, prop) ==
  Request(cp.path, PropertiesIface, "Get", iface, prop, cp.timeout)

(* ---------------- decoding replies ---------------- *)

\* Variant: the first argument is taken as a path whatever its type.
get1_Path_unchecked(m) ==
  IF Len(m.args) > 0 THEN OkSome(m.args[1]) ELSE OkNone

\* reply.get1::<dbus::Path>(): the first argument if it is an object path.
get1_Path(m) ==
  IF Len(m.args) > 0 /\ m.args[1].t = "o" THEN OkSome(m.args[1]) ELSE OkNone

\* The tail of get_display_device: `?` on the round trip, then Ok(get1).
get_display_device_reply(m) ==
  IF m.kind = "error" THEN From_dbus_Error(m.name) ELSE get1_Path(m)

\* Variant: a value the same query returned before is returned again.
get_cached(m, type) ==
  IF prev.ok /\ prev.kind = "value" THEN prev
  ELSE IF m.kind = "error" THEN From_dbus_Error(m.name)
  ELSE IF Len(m.args) > 0 /\ m.args[1].t = type THEN OkValue(m.args[1])
  ELSE From_dbus_Error(ErrTypeMismatch)

\* The tail of ConnPath::get::<T>: an error reply or a value of another
\* type is a dbus::Error; otherwise the value itself.
get(m, type) ==
  IF m.kind = "error" THEN From_dbus_Error(m.name)
  ELSE IF Len(m.args) > 0 /\ m.args[1].t = type THEN OkValue(m.args[1])
  ELSE From_dbus_Error(ErrTypeMismatch)

(* ---------------- the UPower service ---------------- *)

DoubleProps == {"Percentage", "Energy", "EnergyFull"}
DeviceProps == DoubleProps \cup {"Online"}

\* GetDisplayDevice reply bodies: an object path, or no object path at all
\* (no argument, or an empty string instead of a path).
DisplayReplies ==
  {<<ArgPath(p)>> : p \in DevicePaths} \cup {<<>>, <<ArgString("")>>}

Device(exists, percentage, energy, energyFull, online) ==
  [exists |-> exists, Percentage |-> percentage, Energy |-> energy,
   EnergyFull |-> energyFull, Online |-> online]

PropValue(obj, prop) ==
  IF prop = "Online" THEN ArgBool(obj.Online) ELSE ArgDouble(obj[prop])

\* The service's answer to a request, from the state it holds now.
ServiceAnswer(req) ==
  IF req.member = "GetDisplayDevice"
  THEN IF req.path = RootPath /\ req.iface = UPowerIface
       THEN MethodReturn(svcDisplay)
       ELSE ErrorReply(ErrUnknownObject)
  ELSE IF req.path = RootPath
  THEN IF req.propIface = UPowerIface /\ req.prop = "OnBattery"
       THEN MethodReturn(<<ArgBool(onBattery)>>)
       ELSE ErrorReply(ErrInvalidArgs)
  ELSE IF req.path \in DevicePaths /\ objects[req.path].exists
  THEN IF req.propIface = DeviceIface /\ req.prop \in DeviceProps
       THEN MethodReturn(<<PropValue(objects[req.path], req.prop)>>)
       ELSE ErrorReply(ErrInvalidArgs)
  ELSE ErrorReply(ErrUnknownObject)

\* Ticks after which the bus library gives up on a request sent with timeout t.
Deadline(t) == IF t = TimeoutUseDefault THEN DefaultTimeout ELSE t


(* ---------------- the client's calls ---------------- *)

\* What a call does next: return a result, or send one more request.
Return(r) == [ret |-> TRUE, res |-> r, req |-> Request("", "", "", "", "", 0)]
Send(req) == [ret |-> FALSE, res |-> NoResult, req |-> req]

\* UPower::new: `?` on Connection::get_private, else UPower { connection, timeout }.
new_result(conn) ==
  IF conn.kind = "error" THEN From_dbus_Error(conn.name) ELSE OkUPower
\* Variant: a client is built although the connection failed.
new_client_partial(conn, timeout) == UPower(timeout)
new_client(conn, timeout) ==
  IF conn.kind = "error" THEN NoClient ELSE UPower(timeout)

\* Variant: with no display device, the well-known path is read instead.
device_property_dev_default(self, prop, m) ==
  LET r == get_display_device_reply(m)
  IN  IF ~r.ok THEN Return(r)
      ELSE IF r.kind = "None"
      THEN Send(PropGet(connection_path(self, DisplayDevicePath), DeviceIface, prop))
      ELSE Send(PropGet(connection_path(self, r.val.s), DeviceIface, prop))

\* Variant: the property is read at the well-known path, not the replied one.
device_property_dev_wellknown(self, prop, m) ==
  LET r == get_display_device_reply(m)
  IN  IF ~r.ok THEN Return(r)
      ELSE IF r.kind = "None" THEN Return(NoDisplayDevice)
      ELSE Send(PropGet(connection_path(self, DisplayDevicePath), DeviceIface, prop))

\* device_property!(dev => ..): after the get_display_device round trip
\* answered m, `?` returns its error, None returns NoDisplayDevice, and
\* Some(device) is the path the property is read from.
device_property_dev(self, prop, m) ==
  LET r == get_display_device_reply(m)
  IN  IF ~r.ok THEN Return(r)
      ELSE IF r.kind = "None" THEN Return(NoDisplayDevice)
      ELSE Send(PropGet(connection_path(self, r.val.s), DeviceIface, prop))

\* Variant: the caller's path is ignored for the display device's.
device_property_path_display(self, path, prop) ==
  PropGet(connection_path(self, DisplayDevicePath), DeviceIface, prop)

\* device_property!(path => ..): the one property read it sends.
device_property_path(self, path, prop) ==
  PropGet(connection_path(self, path), DeviceIface, prop)

\* Variant: OnBattery is read from the display device object.
on_battery_request_device(self) ==
  PropGet(connection_path(self, DisplayDevicePath), UPowerIface, "OnBattery")

\* The property read on_battery sends.
on_battery_request(self) ==
  PropGet(connection_path(self, RootPath), UPowerIface, "OnBattery")

\* Variant: a request that failed is sent once more.
Continue_retry(m) ==
  IF m.kind = "error" /\ Len(sent) < 2 THEN Send(Last(sent))
  ELSE IF pc = "resolving"
  THEN IF op.arm = "call"
       THEN Return(get_display_device_reply(m))
       ELSE device_property_dev(client, op.prop, m)
  ELSE Return(get(m, op.type))

\* What the call in progress does with the answer m to its request in flight.
Continue(m) ==
  IF pc = "resolving"
  THEN IF op.arm = "call"
       THEN Return(get_display_device_reply(m))
       ELSE device_property_dev(client, op.prop, m)
  ELSE Return(get(m, op.type))

\* A call starts: it sends its first request and blocks on it.
Begin(o, req, at) ==
  /\ client.connected
  /\ pc = "idle"
  /\ prev' = IF op = o THEN result ELSE NoResult
  /\ op' = o
  /\ sent' = <<req>>
  /\ answers' = <<>>
  /\ waited' = 0
  /\ result' = NoResult
  /\ pc' = at
  /\ changed' = FALSE
  /\ UNCHANGED <<client, serviceVars, changes>>

\* The bus hands m back to the blocked call, which runs on to its next
\* request or to its return.
Handle(m) ==
  /\ pc \in {"resolving", "reading"}
  /\ answers' = Append(answers, m)
  /\ LET st == Continue(m)
     IN  IF st.ret
         THEN /\ result' = st.res
              /\ pc' = "idle"
              /\ waited' = 0
              /\ UNCHANGED <<sent, changed>>
         ELSE /\ sent' = Append(sent, st.req)
              /\ pc' = "reading"
              /\ waited' = 0
              /\ changed' = FALSE
              /\ UNCHANGED result
  /\ UNCHANGED <<client, op, prev, serviceVars, changes>>

new ==
  /\ ~client.connected
  /\ pc = "idle"
  /\ \E timeout \in Timeouts :
     \E conn \in {MethodReturn(<<>>), ErrorReply(ErrNoServer)} :
       /\ client' = new_client(conn, timeout)
       /\ result' = new_result(conn)
       /\ op' = [Op("new", "new", "", "", "") EXCEPT !.timeout = timeout]
       /\ answers' = <<conn>>
  /\ prev' = NoResult
  /\ sent' = <<>>
  /\ waited' = 0
  /\ UNCHANGED <<pc, serviceVars, changed, changes>>

get_display_device ==
  Begin(Op("get_display_device", "call", "", "", ""),
        GetDisplayDeviceCall(client), "resolving")

on_battery ==
  Begin(Op("on_battery", "root", "OnBattery", "b", RootPath),
        on_battery_request(client), "reading")

\* The no-argument getters: device_property!(dev => self, prop, type).
dev_getter(name, prop, type) ==
  Begin(Op(name, "dev", prop, type, ""), GetDisplayDeviceCall(client), "resolving")

\* The path-qualified getters: device_property!(path => self, path, prop, type).
path_getter(name, prop, type) ==
  \E path \in CallerPaths :
    Begin(Op(name, "path", prop, type, path),
          device_property_path(client, path, prop), "reading")

get_percentage == dev_getter("get_percentage", "Percentage", "d")
get_percentage_of == path_getter("get_percentage_of", "Percentage", "d")
get_energy == dev_getter("get_energy", "Energy", "d")
get_energy_of == path_getter("get_energy_of", "Energy", "d")
get_energy_full == dev_getter("get_energy_full", "EnergyFull", "d")
get_energy_full_of == path_getter("get_energy_full_of", "EnergyFull", "d")
get_online == dev_getter("get_online", "Online", "b")
get_online_of == path_getter("get_online_of", "Online", "b")

(* ---------------- the bus ---------------- *)

\* The service answers the request in flight from its current state.
Reply == Handle(ServiceAnswer(Last(sent)))

\* The bus answers with an error of its own (the service is not running).
BusError == Handle(ErrorReply(ErrServiceUnknown))

\* Time passes while the request in flight is unanswered.
Tick ==
  /\ pc \in {"resolving", "reading"}
  /\ waited < MaxWait
  /\ \/ Last(sent).timeout = TimeoutInfinite
     \/ waited < Deadline(Last(sent).timeout)
  /\ waited' = waited + 1
  /\ UNCHANGED <<client, op, pc, sent, answers, result, prev, serviceVars,
                 changed, changes>>

\* The request's timeout elapses: the round trip fails with NoReply.
Timeout ==
  /\ pc \in {"resolving", "reading"}
  /\ Last(sent).timeout # TimeoutInfinite
  /\ waited >= Deadline(Last(sent).timeout)
  /\ Handle(ErrorReply(ErrNoReply))

(* ---------------- changes of the service's state ---------------- *)

Change ==
  /\ changes < MaxChanges
  /\ changes' = changes + 1
  /\ changed' = TRUE
  /\ UNCHANGED clientVars

SetDouble ==
  \E p \in DevicePaths, prop \in DoubleProps, v \in Doubles :
    /\ objects[p].exists
    /\ objects[p][prop] # v
    /\ objects' = [objects EXCEPT ![p][prop] = v]
    /\ Change
    /\ UNCHANGED <<svcDisplay, onBattery>>

SetOnline ==
  \E p \in DevicePaths :
    /\ objects[p].exists
    /\ objects' = [objects EXCEPT ![p].Online = ~objects[p].Online]
    /\ Change
    /\ UNCHANGED <<svcDisplay, onBattery>>

\* A device object leaves the bus, or comes back to it.
PlugDevice ==
  \E p \in DevicePaths :
    /\ objects' = [objects EXCEPT ![p].exists = ~objects[p].exists]
    /\ Change
    /\ UNCHANGED <<svcDisplay, onBattery>>

SetDisplayDevice ==
  \E body \in DisplayReplies :
    /\ body # svcDisplay
    /\ svcDisplay' = body
    /\ Change
    /\ UNCHANGED <<objects, onBattery>>

SetOnBattery ==
  /\ onBattery' = ~onBattery
  /\ Change
  /\ UNCHANGED <<svcDisplay, objects>>

(* ---------------- specification ---------------- *)

Init ==
  /\ client = NoClient
  /\ op = NoOp
  /\ pc = "idle"
  /\ sent = <<>>
  /\ answers = <<>>
  /\ waited = 0
  /\ result = NoResult
  /\ prev = NoResult
  /\ svcDisplay = <<ArgPath(DisplayDevicePath)>>
  /\ objects = [p \in DevicePaths |->
                  IF p = DisplayDevicePath
                  THEN Device(TRUE, 735, 735, 735, FALSE)
                  ELSE Device(TRUE, 0, 0, 0, TRUE)]
  /\ onBattery = TRUE
  /\ changed = FALSE
  /\ changes = 0

Next ==
  \/ new
  \/ get_display_device
  \/ on_battery
  \/ get_percentage
  \/ get_percentage_of
  \/ get_energy
  \/ get_energy_of
  \/ get_energy_full
  \/ get_energy_full_of
  \/ get_online
  \/ get_online_of
  \/ Reply
  \/ BusError
  \/ Tick
  \/ Timeout
  \/ SetDouble
  \/ SetOnline
  \/ PlugDevice
  \/ SetDisplayDevice
  \/ SetOnBattery

Spec == Init /\ [][Next]_vars

TypeOK ==
  /\ pc \in {"idle", "resolving", "reading"}
  /\ waited \in 0..MaxWait
  /\ changes \in 0..MaxChanges
  /\ Len(sent) <= 2


(* ---------------- vocabulary of the properties ---------------- *)

Blocked == pc \in {"resolving", "reading"}
Returned == pc = "idle"

\* The property each getter is documented to read.
NamedProperty(name) ==
  CASE name \in {"get_percentage", "get_percentage_of"} -> "Percentage"
    [] name \in {"get_energy", "get_energy_of"} -> "Energy"
    [] name \in {"get_energy_full", "get_energy_full_of"} -> "EnergyFull"
    [] name \in {"get_online", "get_online_of"} -> "Online"
    [] OTHER -> ""

NoArgGetters == {"get_percentage", "get_energy", "get_energy_full", "get_online"}
PathGetters ==
  {"get_percentage_of", "get_energy_of", "get_energy_full_of", "get_online_of"}
Queries == NoArgGetters \cup PathGetters \cup {"get_display_device", "on_battery"}

\* A GetDisplayDevice reply that names no display device.
ReportsNoDevice(m) ==
  m.kind = "return" /\ (m.args = <<>> \/ m.args[1].t # "o")

\* A read of property prop of interface iface at path, sent with timeout t.
PropertyRead(path, iface, prop, t) ==
  [dest |-> "org.freedesktop.UPower", path |-> path,
   iface |-> "org.freedesktop.DBus.Properties", member |-> "Get",
   propIface |-> iface, prop |-> prop, timeout |-> t]

Count(q, member) == Cardinality({i \in 1..Len(q) : q[i].member = member})

\* The answer came from the bus itself, not from the service.
Fault(m) == m.kind = "error" /\ m.name \in {ErrNoReply, ErrServiceUnknown}

(* ---------------- C1 ---------------- *)

\* C1: when a no-argument getter's display-device resolution succeeds with
\* None, the getter has returned Err(NoDisplayDevice) and the only request
\* it sent is the GetDisplayDevice call: no property read.
C1_NoDisplayDeviceIsAnError ==
  (op.name \in NoArgGetters /\ Len(answers) >= 1 /\ ReportsNoDevice(answers[1]))
    => /\ Returned
       /\ result = NoDisplayDevice
       /\ Len(sent) = 1
       /\ sent[1].member = "GetDisplayDevice"

C1_Witness ==
  /\ op.name = "get_percentage"
  /\ Returned
  /\ Len(answers) = 1
  /\ ReportsNoDevice(answers[1])
  /\ result.kind = "NoDisplayDevice"

(* ---------------- C2 ---------------- *)

ConstructionFailed ==
  op.name = "new" /\ Len(answers) = 1 /\ answers[1].kind = "error"

\* C2 as stated: a failed construction returns an error of a kind other than
\* the kind a failed request on an established connection returns.
C2_ConnectionErrorIsDistinct ==
  ConstructionFailed
    => /\ ~result.ok
       /\ result.kind # "Dbus"
       /\ ~client.connected
       /\ sent = <<>>

\* C2 (amended): a failed construction returns Err(Dbus { why }), the same
\* kind a failed request returns, carrying the connection error; no client
\* exists afterwards and nothing was sent on the bus.
C2_ConstructionFailure ==
  ConstructionFailed
    => /\ result = Dbus(answers[1].name)
       /\ ~client.connected
       /\ sent = <<>>

C2_Witness ==
  /\ ConstructionFailed
  /\ result.kind = "Dbus"
  /\ ~client.connected

(* ---------------- C3 ---------------- *)

\* C3: get_display_device, answered by a method return, returns Ok(None)
\* exactly when the reply names no display device, and Ok(Some(path)) with
\* the replied path otherwise.
C3_DisplayDeviceOption ==
  (op.name = "get_display_device" /\ Returned /\ answers[1].kind = "return")
    => IF ReportsNoDevice(answers[1])
       THEN result.ok /\ result.kind = "None"
       ELSE /\ result.ok
            /\ result.kind = "Some"
            /\ result.val = answers[1].args[1]
            /\ result.val.s \in DevicePaths

C3_Witness ==
  /\ op.name = "get_display_device"
  /\ Returned
  /\ answers = <<MethodReturn(<<ArgString("")>>)>>
  /\ result.ok
  /\ result.kind = "None"

(* ---------------- C4 ---------------- *)

\* The call has had no reply, and t bounds its wait and fixes its outcome
\* (a negative t is read as no wait at all).
TimesOutWithin(t) ==
  /\ (Blocked /\ answers = <<>>) => waited <= (IF t < 0 THEN 0 ELSE t)
  /\ (Returned /\ op.name \in Queries /\ answers = <<ErrorReply(ErrNoReply)>>)
       => result = Dbus(ErrNoReply)

\* C4 as stated: for every timeout T a client is constructed with, a query
\* that gets no reply waits at most T and returns Err(Dbus).
C4_TimeoutBound ==
  client.connected => TimesOutWithin(client.timeout)

\* C4 (amended): the same for a client constructed with 0 <= T < i32::MAX.
C4_FiniteTimeoutBound ==
  (client.connected /\ client.timeout >= 0 /\ client.timeout < TimeoutInfinite)
    => TimesOutWithin(client.timeout)

C4_Witness ==
  /\ client.connected
  /\ client.timeout = MaxTimeout
  /\ op.name \in NoArgGetters
  /\ Returned
  /\ answers = <<ErrorReply(ErrNoReply)>>
  /\ result = Dbus(ErrNoReply)

(* ---------------- C5 ---------------- *)

\* C5: an operation sends at most one GetDisplayDevice call and at most one
\* property read, and a failed round trip is its last: the operation has
\* returned that failure and sent nothing after the request that failed.
C5_NoRetry ==
  op.name \in Queries
    => /\ Count(sent, "GetDisplayDevice") <= 1
       /\ Count(sent, "Get") <= 1
       /\ \A i \in 1..Len(answers) :
            answers[i].kind = "error"
              => /\ i = Len(answers)
                 /\ Len(sent) = i
                 /\ Returned
                 /\ result = Dbus(answers[i].name)

C5_Witness ==
  /\ op.name \in NoArgGetters
  /\ Returned
  /\ Len(answers) = 1
  /\ answers[1].kind = "error"
  /\ Len(sent) = 1
  /\ result.kind = "Dbus"

(* ---------------- C6 ---------------- *)

\* C6: a path-qualified getter sends exactly one request, the read of its
\* named property of org.freedesktop.UPower.Device at the caller's path,
\* and never returns NoDisplayDevice.
C6_PathGetterReadsCallerPath ==
  op.name \in PathGetters
    => /\ sent = <<PropertyRead(op.path, "org.freedesktop.UPower.Device",
                                NamedProperty(op.name), client.timeout)>>
       /\ result.kind # "NoDisplayDevice"

C6_Witness ==
  /\ op.name = "get_online_of"
  /\ op.path = BatteryPath
  /\ Returned
  /\ ReportsNoDevice(MethodReturn(svcDisplay))
  /\ result.ok
  /\ result.val = ArgBool(TRUE)

(* ---------------- C7 ---------------- *)

\* C7: a successful property query returns, unmodified, the value the
\* service gave in its answer to that query's own request.
C7_NoCaching ==
  (Returned /\ result.ok /\ result.kind = "value")
    => /\ Last(answers).kind = "return"
       /\ result.val = Last(answers).args[1]

\* The same query ran twice in a row and returned two different values.
C7_Witness ==
  /\ op.name = "get_percentage"
  /\ Returned
  /\ prev.ok
  /\ prev.val = ArgDouble(735)
  /\ result.ok
  /\ result.val = ArgDouble(0)

(* ---------------- C8 ---------------- *)

\* C8: every request carries the client's timeout, the client's timeout is
\* the constructor's argument, and the client never changes once constructed.
C8_TimeoutUniform ==
  /\ [](/\ \A i \in 1..Len(sent) : sent[i].timeout = client.timeout
        /\ (op.name = "new" /\ result.ok) => client = UPower(op.timeout))
  /\ [][client.connected => client' = client]_vars

C8_Witness ==
  /\ client.timeout = MaxTimeout
  /\ Len(sent) = 2
  /\ sent[1].member = "GetDisplayDevice"
  /\ sent[1].timeout = MaxTimeout
  /\ sent[2].member = "Get"
  /\ sent[2].timeout = MaxTimeout

(* ---------------- C9 ---------------- *)

\* C9: on_battery sends exactly one request, the read of OnBattery of
\* org.freedesktop.UPower at the root object, returns what was answered to
\* it, and never returns NoDisplayDevice.
C9_OnBatteryReadsRoot ==
  op.name = "on_battery"
    => /\ sent = <<PropertyRead("/org/freedesktop/UPower", "org.freedesktop.UPower",
                                "OnBattery", client.timeout)>>
       /\ result.kind # "NoDisplayDevice"
       /\ (Returned /\ answers[1].kind = "return")
            => result = OkValue(answers[1].args[1])

C9_Witness ==
  /\ op.name = "on_battery"
  /\ Returned
  /\ ReportsNoDevice(MethodReturn(svcDisplay))
  /\ result = OkValue(ArgBool(TRUE))

(* ---------------- C10 ---------------- *)

\* get_display_device() followed by get_X_of(p) against the service's
\* current state.
Composed(prop, type) ==
  LET r == get_display_device_reply(ServiceAnswer(GetDisplayDeviceCall(client)))
  IN  IF ~r.ok THEN r
      ELSE IF r.kind = "None" THEN NoDisplayDevice
      ELSE get(ServiceAnswer(device_property_path(client, r.val.s, prop)), type)

\* C10: a no-argument getter's second request reads its property at the path
\* of its own GetDisplayDevice reply; with the service unchanged between the
\* round trips it returns what the composition returns; and when the device
\* is gone at the second round trip it returns the Dbus error.
C10_TwoRoundTrips ==
  op.name \in NoArgGetters
    => /\ sent[1].member = "GetDisplayDevice"
       /\ Len(sent) = 2
            => /\ answers[1].kind = "return"
               /\ answers[1].args[1].t = "o"
               /\ sent[2] = PropertyRead(answers[1].args[1].s,
                                         "org.freedesktop.UPower.Device",
                                         NamedProperty(op.name), client.timeout)
       /\ (Returned /\ ~changed /\ \A i \in 1..Len(answers) : ~Fault(answers[i]))
            => result = Composed(NamedProperty(op.name), op.type)
       /\ (Returned /\ Len(answers) = 2 /\ answers[2].kind = "error")
            => result = Dbus(answers[2].name)

\* The display device was resolved and then removed before the read.
C10_Witness ==
  /\ op.name = "get_energy"
  /\ Returned
  /\ Len(answers) = 2
  /\ answers[1] = MethodReturn(<<ArgPath(DisplayDevicePath)>>)
  /\ answers[2] = ErrorReply(ErrUnknownObject)
  /\ result = Dbus(ErrUnknownObject)

====
